---- MODULE Spec2Model ----
(***************************************************************************)
(* The ElasticSearch graph backend of skydive (package graph): the         *)
(* revision tracker prevRevision, the create / update / delete handlers,   *)
(* the index rollover and the time-scoped queries, over a document store   *)
(* whose calls may fail.                                                   *)
(*                                                                         *)
(* A handler is one action.  The store answers each call as it likes       *)
(* (error, success, success with shouldRoll), so a handler is modelled by  *)
(* the set of outcomes it can end in: every operator of the write path     *)
(* takes the backend state `st` and yields the set of states (and return   *)
(* values) the Go function can return with.                                *)
(***************************************************************************)
EXTENDS Integers, Sequences, FiniteSets, TLC

\* Bounds of the model.
MaxRev == 1
MaxIndex == 2
MaxTime == 2
MaxFaults == 1
MaxHits == 3

NodeIDs == {"n1"}
EdgeIDs == {"e1"}
IDs == NodeIDs \cup EdgeIDs
AliasName == "live"
EdgeParent == "n1"
EdgeChild == "n2"

VARIABLES
  es,            \* the store: <<index, kind, document id>> -> document
  alias,         \* the index the live alias points to
  prevRevision,  \* ElasticSearchBackend.prevRevision
  graph,         \* the caller's in-memory element per ID
  life,          \* the caller's lifecycle per ID: "none", "live", "deleted"
  pending,       \* per ID, the event whose delivery returned false, if any
  now,           \* the clock, in milliseconds; it stops at MaxTime
  last,          \* the last handler call: its name, element and return value
  calls,         \* the store calls the last handler made, in order
  rolls,         \* the rollovers the last handler ran, in order of completion
  lastIndexed,   \* per ID, the last revision given to BulkIndex before `last`
  faults,        \* the store calls that failed with an I/O error so far
  hits,          \* a search output handed to the decoding loop: its kind and hits
  decoded,       \* what the decoding loop returned for `hits`, once it has run
  proc,          \* per concurrent caller, where it stands in the handler it runs
  mapBusy,       \* the callers in the middle of a write to the prevRevision map
  crashed,       \* the runtime stopped the process: concurrent map access
  expected       \* per ID, the tracker entry the operations on that ID alone give

vars == <<es, alias, prevRevision, graph, life, pending, now, last, calls,
          rolls, lastIndexed, faults, hits, decoded, proc, mapBusy, crashed,
          expected>>

----------------------------------------------------------------------------
\* Maps (Go map[K]V) are functions whose domain is the set of present keys.

Put(f, k, v) == [x \in DOMAIN f \cup {k} |-> IF x = k THEN v ELSE f[x]]

Remove(f, k) == [x \in DOMAIN f \ {k} |-> f[x]]

Merge(p, d) == [x \in DOMAIN p \cup DOMAIN d |-> IF x \in DOMAIN p THEN p[x] ELSE d[x]]

EmptyMap == [x \in {} |-> 0]

IsEdge(e) == e.type = "edge"

KindOf(id) == IF id \in EdgeIDs THEN "edge" ELSE "node"

\* string(ID) + "-" + strconv.FormatInt(revision, 10)
DocID(id, revision) == <<id, revision>>

----------------------------------------------------------------------------
\* Element Mapper.

mapElement(e) ==
  LET obj == [ID |-> e.ID, Host |-> e.host, CreatedAt |-> e.createdAt,
              UpdatedAt |-> e.updatedAt, Metadata |-> e.metadata,
              Revision |-> e.revision]
  IN IF e.deletedAt # 0 THEN Merge([DeletedAt |-> e.deletedAt], obj) ELSE obj

mapNode(n) == mapElement(n)

mapEdge(e) == Merge([Parent |-> e.parent, Child |-> e.child], mapElement(e))

\* A hit whose source common.JSONDecode rejects.
Malformed == [Malformed |-> TRUE]

IsMalformed(d) == "Malformed" \in DOMAIN d

\* The zero values of Node and Edge (`var node Node`, `var edge Edge`).
ZeroNode ==
  [type |-> "node", ID |-> "", host |-> "", createdAt |-> 0, updatedAt |-> 0,
   deletedAt |-> 0, metadata |-> <<>>, revision |-> 0]

ZeroEdge ==
  [type |-> "edge", ID |-> "", host |-> "", createdAt |-> 0, updatedAt |-> 0,
   deletedAt |-> 0, metadata |-> <<>>, revision |-> 0, parent |-> "", child |-> ""]

\* hitToNode(source, node): the error it returns and what it leaves in node,
\* which the caller passed in zero-valued.
hitToNode(d) ==
  IF IsMalformed(d) THEN [err |-> TRUE, node |-> ZeroNode]
  ELSE [err |-> FALSE,
        node |-> [type |-> "node", ID |-> d.ID, host |-> d.Host,
                  createdAt |-> d.CreatedAt, updatedAt |-> d.UpdatedAt,
                  deletedAt |-> IF "DeletedAt" \in DOMAIN d THEN d.DeletedAt ELSE 0,
                  metadata |-> d.Metadata, revision |-> d.Revision]]

hitToEdge(d) ==
  IF IsMalformed(d) THEN [err |-> TRUE, edge |-> ZeroEdge]
  ELSE [err |-> FALSE,
        edge |-> [type |-> "edge", ID |-> d.ID, host |-> d.Host,
                  createdAt |-> d.CreatedAt, updatedAt |-> d.UpdatedAt,
                  deletedAt |-> IF "DeletedAt" \in DOMAIN d THEN d.DeletedAt ELSE 0,
                  metadata |-> d.Metadata, revision |-> d.Revision,
                  parent |-> d.Parent, child |-> d.Child]]

----------------------------------------------------------------------------
\* Filters (package filters) and the time filter.

RECURSIVE Match(_, _)
Match(f, d) ==
  CASE f.type = "null" -> f.field \notin DOMAIN d
    [] f.type = "term" -> f.field \in DOMAIN d /\ d[f.field] = f.value
    [] f.type = "lte"  -> f.field \in DOMAIN d /\ d[f.field] <= f.value
    [] f.type = "gte"  -> f.field \in DOMAIN d /\ d[f.field] >= f.value
    [] f.type = "and"  -> \A i \in 1..Len(f.filters) : Match(f.filters[i], d)
    [] f.type = "or"   -> \E i \in 1..Len(f.filters) : Match(f.filters[i], d)

NewNullFilter(field) == [type |-> "null", field |-> field]

NewTermStringFilter(field, value) == [type |-> "term", field |-> field, value |-> value]

NewFilterForEdge(parent, child) ==
  [type |-> "or", filters |-> <<NewTermStringFilter("Parent", parent),
                                NewTermStringFilter("Child", child)>>]

\* A nil *TimeSlice is <<>>, a time slice is <<[Start |-> .., Last |-> ..]>>.
getTimeFilter(ts) ==
  IF ts = <<>> THEN NewNullFilter("ArchivedAt")
  ELSE [type |-> "and", filters |->
         <<[type |-> "lte", field |-> "CreatedAt", value |-> ts[1].Last],
           [type |-> "or", filters |->
              <<NewNullFilter("ArchivedAt"),
                [type |-> "gte", field |-> "ArchivedAt", value |-> ts[1].Start]>>]>>]

----------------------------------------------------------------------------
\* The store client.  Every call is logged in st.calls with its outcome, the
\* rollover nesting depth it was made at, for BulkIndex the shouldRoll it
\* returned and, for Search, the index argument it was given.

Logged(st, op, kind, id, ok) ==
  [st EXCEPT !.calls = Append(@, [op |-> op, kind |-> kind, id |-> id,
                                  ok |-> ok, depth |-> st.depth, roll |-> FALSE,
                                  index |-> ""])]

\* The last logged call, with the index argument it was given.
SentTo(st, index) == [st EXCEPT !.calls[Len(st.calls)].index = index]

\* A Search is logged with the field it sorts by ("" when it does not sort)
\* in place of a document id.
SortOf(sq) == <<IF sq.Sort THEN sq.SortBy ELSE "", 0>>

\* A store call that fails for a reason of the store's own (an I/O error):
\* at most MaxFaults of them in a behaviour.
Faulty(st, op, kind, id) ==
  IF st.faults < MaxFaults
  THEN {[Logged(st, op, kind, id, FALSE) EXCEPT !.faults = @ + 1]}
  ELSE {}

NoDoc == <<"", 0>>

BulkIndex(st, kind, id, obj) ==
  LET done == [Logged(st, "BulkIndex", kind, id, TRUE)
                 EXCEPT !.es = Put(@, <<st.alias, kind, id>>, obj)]
      full == [done EXCEPT !.calls[Len(done.calls)].roll = TRUE]
  IN {[st |-> f, shouldRoll |-> FALSE, err |-> TRUE] : f \in Faulty(st, "BulkIndex", kind, id)}
     \cup {[st |-> done, shouldRoll |-> FALSE, err |-> FALSE]}
     \cup (IF st.alias < MaxIndex
           THEN {[st |-> full, shouldRoll |-> TRUE, err |-> FALSE]}
           ELSE {})

BulkUpdateWithPartialDoc(st, kind, id, obj) ==
  LET key == <<st.alias, kind, id>>
  IN IF key \notin DOMAIN st.es
     THEN {[st |-> Logged(st, "BulkUpdateWithPartialDoc", kind, id, FALSE), err |-> TRUE]}
     ELSE {[st |-> f, err |-> TRUE] : f \in Faulty(st, "BulkUpdateWithPartialDoc", kind, id)}
          \cup {[st |-> [Logged(st, "BulkUpdateWithPartialDoc", kind, id, TRUE)
                           EXCEPT !.es = Put(@, key, Merge(obj, st.es[key]))],
                 err |-> FALSE]}

RollIndex(st) ==
  {[st |-> f, err |-> TRUE] : f \in Faulty(st, "RollIndex", "", NoDoc)}
  \cup (IF st.alias < MaxIndex
        THEN {[st |-> [Logged(st, "RollIndex", "", NoDoc, TRUE) EXCEPT !.alias = @ + 1],
               err |-> FALSE]}
        ELSE {})

GetIndexAlias == AliasName

\* The orders a search may return the matched documents in: ascending by the
\* sort field when the query sorts, any order otherwise.
RECURSIVE Orders(_, _, _)
Orders(store, keys, sq) ==
  IF keys = {} THEN {<<>>}
  ELSE UNION {{<<k>> \o p : p \in Orders(store, keys \ {k}, sq)} :
              k \in {c \in keys : sq.Sort =>
                       \A o \in keys : store[c][sq.SortBy] <= store[o][sq.SortBy]}}

Search(st, obj, must, index, sq) ==
  LET matched == {k \in DOMAIN st.es :
                    /\ k[2] = obj
                    /\ index = AliasName => k[1] = st.alias
                    /\ \A i \in 1..Len(must) : Match(must[i], st.es[k])}
  IN {[st |-> SentTo(f, index), hits |-> <<>>, err |-> TRUE] :
      f \in Faulty(st, "Search", obj, SortOf(sq))}
     \cup {[st |-> SentTo(Logged(st, "Search", obj, SortOf(sq), TRUE), index),
            hits |-> [i \in 1..Len(p) |-> st.es[p[i]]], err |-> FALSE] :
           p \in Orders(st.es, matched, sq)}

----------------------------------------------------------------------------
\* Query engine.  A GraphContext is [TimeSlice, TimePoint]; a nil matcher is
\* <<>>, a matcher is <<[err |-> TRUE]>> or <<[err |-> FALSE, filter |-> f]>>.

Query(st, obj, tsq, index) ==
  Search(st, obj, <<tsq.TimeFilter>> \o tsq.SearchQuery.Filter \o tsq.MetadataFilter,
         index, tsq.SearchQuery)

\* The loop of searchNodes over the hits: a hit that fails to decode is
\* logged, and the node, decoded or not, is appended.
decodeNodes(hs) == [i \in 1..Len(hs) |-> hitToNode(hs[i]).node]

decodeEdges(hs) == [i \in 1..Len(hs) |-> hitToEdge(hs[i]).edge]

searchNodes(st, tsq, index) ==
  {[st |-> q.st, nodes |-> IF q.err THEN <<>> ELSE decodeNodes(q.hits)] :
   q \in Query(st, "node", tsq, index)}

searchEdges(st, tsq, index) ==
  {[st |-> q.st, edges |-> IF q.err THEN <<>> ELSE decodeEdges(q.hits)] :
   q \in Query(st, "edge", tsq, index)}

\* Keeps, for each ID, the last element of the list that carries it.
RECURSIVE dedupElements(_)
dedupElements(elems) ==
  IF elems = <<>> THEN <<>>
  ELSE IF \E j \in 2..Len(elems) : elems[j].ID = elems[1].ID
       THEN dedupElements(Tail(elems))
       ELSE <<Head(elems)>> \o dedupElements(Tail(elems))

dedupNodes(nodes) == dedupElements(nodes)

dedupEdges(edges) == dedupElements(edges)

NoSort == [Filter |-> <<>>, Sort |-> FALSE, SortBy |-> ""]

SortByUpdatedAt == [Filter |-> <<>>, Sort |-> TRUE, SortBy |-> "UpdatedAt"]

\* Mutant: a time-point lookup keeps the first hit, not the last.
GetNode_KeepsFirst(st, i, t) ==
  LET index == IF t.TimeSlice = <<>> THEN GetIndexAlias ELSE ""
      found == searchNodes(st, [SearchQuery |-> [Filter |-> <<NewTermStringFilter("ID", i)>>,
                                                 Sort |-> TRUE, SortBy |-> "Revision"],
                                TimeFilter |-> getTimeFilter(t.TimeSlice),
                                MetadataFilter |-> <<>>], index)
  IN {[st |-> r.st,
       nodes |-> IF Len(r.nodes) > 1 /\ t.TimePoint
                 THEN <<r.nodes[1]>> ELSE r.nodes] : r \in found}

\* Mutant: a lookup searches the live index whatever the time slice.
GetNode_LiveIndexOnly(st, i, t) ==
  LET found == searchNodes(st, [SearchQuery |-> [Filter |-> <<NewTermStringFilter("ID", i)>>,
                                                 Sort |-> TRUE, SortBy |-> "Revision"],
                                TimeFilter |-> getTimeFilter(t.TimeSlice),
                                MetadataFilter |-> <<>>], GetIndexAlias)
  IN {[st |-> r.st,
       nodes |-> IF Len(r.nodes) > 1 /\ t.TimePoint
                 THEN <<r.nodes[Len(r.nodes)]>> ELSE r.nodes] : r \in found}

GetNode(st, i, t) ==
  LET index == IF t.TimeSlice = <<>> THEN GetIndexAlias ELSE ""
      found == searchNodes(st, [SearchQuery |-> [Filter |-> <<NewTermStringFilter("ID", i)>>,
                                                 Sort |-> TRUE, SortBy |-> "Revision"],
                                TimeFilter |-> getTimeFilter(t.TimeSlice),
                                MetadataFilter |-> <<>>], index)
  IN {[st |-> r.st,
       nodes |-> IF Len(r.nodes) > 1 /\ t.TimePoint
                 THEN <<r.nodes[Len(r.nodes)]>> ELSE r.nodes] : r \in found}

GetEdge(st, i, t) ==
  LET index == IF t.TimeSlice = <<>> THEN GetIndexAlias ELSE ""
      found == searchEdges(st, [SearchQuery |-> [Filter |-> <<NewTermStringFilter("ID", i)>>,
                                                 Sort |-> TRUE, SortBy |-> "Revision"],
                                TimeFilter |-> getTimeFilter(t.TimeSlice),
                                MetadataFilter |-> <<>>], index)
  IN {[st |-> r.st,
       edges |-> IF Len(r.edges) > 1 /\ t.TimePoint
                 THEN <<r.edges[Len(r.edges)]>> ELSE r.edges] : r \in found}

\* Mutant: the bulk edge query never restricts the index.
GetEdges_AllIndices(st, t, m) ==
  IF m # <<>> /\ m[1].err THEN {[st |-> st, edges |-> <<>>]}
  ELSE LET filter == IF m = <<>> THEN <<>> ELSE <<m[1].filter>>
           searchQuery == IF ~t.TimePoint THEN SortByUpdatedAt ELSE NoSort
       IN {[st |-> r.st,
            edges |-> IF t.TimePoint THEN dedupEdges(r.edges) ELSE r.edges] :
           r \in searchEdges(st, [SearchQuery |-> searchQuery,
                                  TimeFilter |-> getTimeFilter(t.TimeSlice),
                                  MetadataFilter |-> filter], "")}

GetEdges(st, t, m) ==
  LET index == IF t.TimeSlice = <<>> THEN GetIndexAlias ELSE ""
  IN IF m # <<>> /\ m[1].err THEN {[st |-> st, edges |-> <<>>]}
     ELSE LET filter == IF m = <<>> THEN <<>> ELSE <<m[1].filter>>
              searchQuery == IF ~t.TimePoint THEN SortByUpdatedAt ELSE NoSort
          IN {[st |-> r.st,
               edges |-> IF t.TimePoint THEN dedupEdges(r.edges) ELSE r.edges] :
              r \in searchEdges(st, [SearchQuery |-> searchQuery,
                                     TimeFilter |-> getTimeFilter(t.TimeSlice),
                                     MetadataFilter |-> filter], index)}

\* Mutant: the time filter is left out of the query.
GetNodes_NoTimeFilter(st, t, m) ==
  LET index == IF t.TimeSlice = <<>> THEN GetIndexAlias ELSE ""
  IN IF m # <<>> /\ m[1].err THEN {[st |-> st, nodes |-> <<>>]}
     ELSE LET filter == IF m = <<>> THEN <<>> ELSE <<m[1].filter>>
              searchQuery == IF ~t.TimePoint THEN SortByUpdatedAt ELSE NoSort
          IN {[st |-> r.st,
               nodes |-> IF Len(r.nodes) > 1 /\ t.TimePoint
                         THEN dedupNodes(r.nodes) ELSE r.nodes] :
              r \in searchNodes(st, [SearchQuery |-> searchQuery,
                                     TimeFilter |-> [type |-> "and", filters |-> <<>>],
                                     MetadataFilter |-> filter], index)}

\* Mutant: a matcher that fails is treated as no matcher.
GetNodes_IgnoresMatcherError(st, t, m) ==
  LET index == IF t.TimeSlice = <<>> THEN GetIndexAlias ELSE ""
      filter == IF m = <<>> \/ m[1].err THEN <<>> ELSE <<m[1].filter>>
      searchQuery == IF ~t.TimePoint THEN SortByUpdatedAt ELSE NoSort
  IN {[st |-> r.st,
       nodes |-> IF Len(r.nodes) > 1 /\ t.TimePoint
                 THEN dedupNodes(r.nodes) ELSE r.nodes] :
      r \in searchNodes(st, [SearchQuery |-> searchQuery,
                             TimeFilter |-> getTimeFilter(t.TimeSlice),
                             MetadataFilter |-> filter], index)}

GetNodes(st, t, m) ==
  LET index == IF t.TimeSlice = <<>> THEN GetIndexAlias ELSE ""
  IN IF m # <<>> /\ m[1].err THEN {[st |-> st, nodes |-> <<>>]}
     ELSE LET filter == IF m = <<>> THEN <<>> ELSE <<m[1].filter>>
              searchQuery == IF ~t.TimePoint THEN SortByUpdatedAt ELSE NoSort
          IN {[st |-> r.st,
               nodes |-> IF Len(r.nodes) > 1 /\ t.TimePoint
                         THEN dedupNodes(r.nodes) ELSE r.nodes] :
              r \in searchNodes(st, [SearchQuery |-> searchQuery,
                                     TimeFilter |-> getTimeFilter(t.TimeSlice),
                                     MetadataFilter |-> filter], index)}

GetNodeEdges(st, n, t, m) ==
  LET index == IF t.TimeSlice = <<>> THEN GetIndexAlias ELSE ""
  IN IF m # <<>> /\ m[1].err THEN {[st |-> st, edges |-> <<>>]}
     ELSE LET filter == IF m = <<>> THEN <<>> ELSE <<m[1].filter>>
              searchQuery == [(IF ~t.TimePoint THEN SortByUpdatedAt ELSE NoSort)
                                EXCEPT !.Filter = <<NewFilterForEdge(n.ID, n.ID)>>]
          IN {[st |-> r.st,
               edges |-> IF Len(r.edges) > 1 /\ t.TimePoint
                         THEN dedupEdges(r.edges) ELSE r.edges] :
              r \in searchEdges(st, [SearchQuery |-> searchQuery,
                                     TimeFilter |-> getTimeFilter(t.TimeSlice),
                                     MetadataFilter |-> filter], index)}

----------------------------------------------------------------------------
\* Archival, create / update / delete and the rollover.

\* Mutant: the document to archive is named by the element's own revision.
updateTimes_UsesElementRevision(st, i) ==
  LET kind == IF IsEdge(i) THEN "edge" ELSE "node"
  IN IF i.ID \notin DOMAIN st.prev THEN {[st |-> st, ret |-> FALSE]}
     ELSE {[st |-> r.st, ret |-> ~r.err] :
           r \in BulkUpdateWithPartialDoc(st, kind, DocID(i.ID, i.revision),
                                          [ArchivedAt |-> i.updatedAt])}

updateTimes(st, i) ==
  LET kind == IF IsEdge(i) THEN "edge" ELSE "node"
  IN IF i.ID \notin DOMAIN st.prev THEN {[st |-> st, ret |-> FALSE]}
     ELSE {[st |-> r.st, ret |-> ~r.err] :
           r \in BulkUpdateWithPartialDoc(st, kind, DocID(i.ID, st.prev[i.ID]),
                                          [ArchivedAt |-> i.updatedAt])}

RECURSIVE createNode(_, _)
RECURSIVE createEdge(_, _)
RECURSIVE rollAndDumpTopology(_)
RECURSIVE archiveEach(_, _)
RECURSIVE createEach(_, _)
RECURSIVE createEach_NodesOnly(_, _)

\* Mutant: the tracker is not updated after the write.
createNode_NoTracker(st, n) ==
  UNION {IF r.err THEN {[st |-> r.st, ret |-> FALSE]}
         ELSE IF r.shouldRoll
              THEN {[st |-> d.st, ret |-> ~d.err] : d \in rollAndDumpTopology(r.st)}
              ELSE {[st |-> r.st, ret |-> TRUE]} :
         r \in BulkIndex(st, "node", DocID(n.ID, n.revision), mapNode(n))}

\* Mutant: the tracker is updated whether or not the write succeeded.
createNode_TracksOnError(st, n) ==
  UNION {LET st1 == [r.st EXCEPT !.prev = Put(@, n.ID, n.revision)]
         IN IF r.err THEN {[st |-> st1, ret |-> FALSE]}
            ELSE IF r.shouldRoll
                 THEN {[st |-> d.st, ret |-> ~d.err] : d \in rollAndDumpTopology(st1)}
                 ELSE {[st |-> st1, ret |-> TRUE]} :
         r \in BulkIndex(st, "node", DocID(n.ID, n.revision), mapNode(n))}

\* Mutant: shouldRoll is ignored.
createNode_NeverRolls(st, n) ==
  UNION {IF r.err THEN {[st |-> r.st, ret |-> FALSE]}
         ELSE {[st |-> [r.st EXCEPT !.prev = Put(@, n.ID, n.revision)], ret |-> TRUE]} :
         r \in BulkIndex(st, "node", DocID(n.ID, n.revision), mapNode(n))}

createNode(st, n) ==
  UNION {IF r.err THEN {[st |-> r.st, ret |-> FALSE]}
         ELSE LET st1 == [r.st EXCEPT !.prev = Put(@, n.ID, n.revision)]
              IN IF r.shouldRoll
                 THEN {[st |-> d.st, ret |-> ~d.err] : d \in rollAndDumpTopology(st1)}
                 ELSE {[st |-> st1, ret |-> TRUE]} :
         r \in BulkIndex(st, "node", DocID(n.ID, n.revision), mapNode(n))}

createEdge(st, e) ==
  UNION {IF r.err THEN {[st |-> r.st, ret |-> FALSE]}
         ELSE LET st1 == [r.st EXCEPT !.prev = Put(@, e.ID, e.revision)]
              IN IF r.shouldRoll
                 THEN {[st |-> d.st, ret |-> ~d.err] : d \in rollAndDumpTopology(st1)}
                 ELSE {[st |-> st1, ret |-> TRUE]} :
         r \in BulkIndex(st, "edge", DocID(e.ID, e.revision), mapEdge(e))}

\* The loops of rollAndDumpTopology; both ignore what the callee returns.
archiveEach(S, elems) ==
  IF elems = <<>> THEN S
  ELSE archiveEach(UNION {{r.st : r \in updateTimes(s, Head(elems))} : s \in S},
                   Tail(elems))

\* Mutant: only the nodes are re-created.
createEach_NodesOnly(S, elems) ==
  IF elems = <<>> THEN S
  ELSE createEach_NodesOnly(
         UNION {IF IsEdge(Head(elems)) THEN {s}
                ELSE {r.st : r \in createNode(s, Head(elems))} : s \in S},
         Tail(elems))

\* Mutant: an element is re-created one revision above the fetched one.
createEach_BumpsRevision(S, elems) ==
  IF elems = <<>> THEN S
  ELSE createEach(UNION {{r.st : r \in IF IsEdge(Head(elems))
                                        THEN createEdge(s, [Head(elems) EXCEPT !.revision = @ + 1])
                                        ELSE createNode(s, [Head(elems) EXCEPT !.revision = @ + 1])} :
                           s \in S},
                  Tail(elems))

createEach(S, elems) ==
  IF elems = <<>> THEN S
  ELSE createEach(UNION {{r.st : r \in IF IsEdge(Head(elems))
                                        THEN createEdge(s, Head(elems))
                                        ELSE createNode(s, Head(elems))} : s \in S},
                  Tail(elems))

Stamped(elems) == [i \in 1..Len(elems) |-> [elems[i] EXCEPT !.updatedAt = now]]

\* Mutant: the index is rolled before the fetched elements are archived.
rollAndDumpTopology_RollsFirst(st) ==
  LET ctx == [TimeSlice |-> <<>>, TimePoint |-> FALSE]
      enter == [st EXCEPT !.depth = @ + 1]
      exit(s, err) ==
        [st |-> [s EXCEPT !.depth = @ - 1,
                          !.rolls = Append(@, [before |-> [es |-> st.es, alias |-> st.alias,
                                                           prev |-> st.prev],
                                               after |-> [es |-> s.es, alias |-> s.alias,
                                                          prev |-> s.prev],
                                               from |-> Len(st.calls), to |-> Len(s.calls),
                                               depth |-> enter.depth, err |-> err])],
         err |-> err]
  IN UNION {UNION {
       LET nodes == Stamped(gn.nodes)
           edges == Stamped(ge.edges)
       IN UNION {IF r.err THEN {exit(r.st, TRUE)}
                 ELSE {exit(c, FALSE) :
                       c \in createEach(archiveEach({r.st}, nodes \o edges), nodes \o edges)} :
                 r \in RollIndex(ge.st)} :
       ge \in GetEdges(gn.st, ctx, <<>>)} : gn \in GetNodes(enter, ctx, <<>>)}

rollAndDumpTopology(st) ==
  LET ctx == [TimeSlice |-> <<>>, TimePoint |-> FALSE]
      enter == [st EXCEPT !.depth = @ + 1]
      exit(s, err) ==
        [st |-> [s EXCEPT !.depth = @ - 1,
                          !.rolls = Append(@, [before |-> [es |-> st.es, alias |-> st.alias,
                                                           prev |-> st.prev],
                                               after |-> [es |-> s.es, alias |-> s.alias,
                                                          prev |-> s.prev],
                                               from |-> Len(st.calls), to |-> Len(s.calls),
                                               depth |-> enter.depth, err |-> err])],
         err |-> err]
  IN UNION {UNION {
       LET nodes == Stamped(gn.nodes)
           edges == Stamped(ge.edges)
       IN UNION {IF r.err THEN {exit(r.st, TRUE)}
                 ELSE {exit(c, FALSE) : c \in createEach({r.st}, nodes \o edges)} :
                 r \in UNION {RollIndex(a) : a \in archiveEach({ge.st}, nodes \o edges)}} :
       ge \in GetEdges(gn.st, ctx, <<>>)} : gn \in GetNodes(enter, ctx, <<>>)}

NodeAdded(st, n) == createNode(st, n)

EdgeAdded(st, e) == createEdge(st, e)

\* Mutant: ArchivedAt is stamped with the last update, not the deletion.
NodeDeleted_ArchivesAtUpdate(st, n) ==
  LET st1 == [st EXCEPT !.prev = Remove(@, n.ID)]
      obj == [DeletedAt |-> n.deletedAt, ArchivedAt |-> n.updatedAt]
  IN {[st |-> r.st, ret |-> ~r.err] :
      r \in BulkUpdateWithPartialDoc(st1, "node", DocID(n.ID, n.revision), obj)}

\* Mutant: the deletion stamps DeletedAt only.
NodeDeleted_NotArchived(st, n) ==
  LET st1 == [st EXCEPT !.prev = Remove(@, n.ID)]
      obj == [DeletedAt |-> n.deletedAt]
  IN {[st |-> r.st, ret |-> ~r.err] :
      r \in BulkUpdateWithPartialDoc(st1, "node", DocID(n.ID, n.revision), obj)}

\* Mutant: the deletion leaves the tracker entry in place.
NodeDeleted_KeepsTracker(st, n) ==
  LET ms == n.deletedAt
      obj == [DeletedAt |-> ms, ArchivedAt |-> ms]
  IN {[st |-> r.st, ret |-> ~r.err] :
      r \in BulkUpdateWithPartialDoc(st, "node", DocID(n.ID, n.revision), obj)}

\* Mutant: the tracker entry is put back when the store write fails.
NodeDeleted_RestoresTracker(st, n) ==
  LET st1 == [st EXCEPT !.prev = Remove(@, n.ID)]
      ms == n.deletedAt
      obj == [DeletedAt |-> ms, ArchivedAt |-> ms]
  IN {[st |-> IF r.err THEN [r.st EXCEPT !.prev = st.prev] ELSE r.st, ret |-> ~r.err] :
      r \in BulkUpdateWithPartialDoc(st1, "node", DocID(n.ID, n.revision), obj)}

NodeDeleted(st, n) ==
  LET st1 == [st EXCEPT !.prev = Remove(@, n.ID)]
      ms == n.deletedAt
      obj == [DeletedAt |-> ms, ArchivedAt |-> ms]
  IN {[st |-> r.st, ret |-> ~r.err] :
      r \in BulkUpdateWithPartialDoc(st1, "node", DocID(n.ID, n.revision), obj)}

EdgeDeleted(st, e) ==
  LET st1 == [st EXCEPT !.prev = Remove(@, e.ID)]
      ms == e.deletedAt
      obj == [DeletedAt |-> ms, ArchivedAt |-> ms]
  IN {[st |-> r.st, ret |-> ~r.err] :
      r \in BulkUpdateWithPartialDoc(st1, "edge", DocID(e.ID, e.revision), obj)}

\* Mutant: the result of the archival is ignored.
MetadataUpdated_IgnoresArchival(st, i) ==
  UNION {IF IsEdge(i) THEN createEdge(u.st, i) ELSE createNode(u.st, i) :
         u \in updateTimes(st, i)}

MetadataUpdated(st, i) ==
  UNION {IF ~u.ret THEN {[st |-> u.st, ret |-> FALSE]}
         ELSE IF IsEdge(i) THEN createEdge(u.st, i) ELSE createNode(u.st, i) :
         u \in updateTimes(st, i)}

----------------------------------------------------------------------------
\* The caller (the live graph): one element per ID, created once, updated
\* with a revision one above the last, deleted once.  An event whose handler
\* returned false may be delivered again unchanged.

Host == "host"

\* The metadata the element carries at a revision: the caller raises the
\* revision on every metadata change.
MetadataAt(id, revision) == <<id, revision>>

NewElement(id) ==
  LET base == [type |-> KindOf(id), ID |-> id, host |-> Host, createdAt |-> now,
               updatedAt |-> now, deletedAt |-> 0, metadata |-> MetadataAt(id, 0),
               revision |-> 0]
  IN IF id \in EdgeIDs
     THEN Merge([parent |-> EdgeParent, child |-> EdgeChild], base)
     ELSE base

Backend ==
  [es |-> es, alias |-> alias, prev |-> prevRevision, calls |-> <<>>,
   rolls |-> <<>>, depth |-> 0, faults |-> faults]

\* The revisions BulkIndex was given for id in a call log, in order.
IndexedRevs(log, id) ==
  LET sel == SelectSeq(log, LAMBDA c : c.op = "BulkIndex" /\ c.id[1] = id)
  IN [i \in 1..Len(sel) |-> sel[i].id[2]]

Deliver(op, e, r, lifeAfter, pendingAfter) ==
  /\ es' = r.st.es
  /\ alias' = r.st.alias
  /\ prevRevision' = r.st.prev
  /\ calls' = r.st.calls
  /\ rolls' = r.st.rolls
  /\ faults' = r.st.faults
  /\ last' = [op |-> op, elem |-> e, ret |-> r.ret, retry |-> pending[e.ID] # "none" /\ e = graph[e.ID]]
  /\ lastIndexed' = [id \in DOMAIN lastIndexed \cup {id \in IDs : IndexedRevs(calls, id) # <<>>} |->
                       IF IndexedRevs(calls, id) # <<>>
                       THEN IndexedRevs(calls, id)[Len(IndexedRevs(calls, id))]
                       ELSE lastIndexed[id]]
  /\ graph' = [graph EXCEPT ![e.ID] = e]
  /\ life' = [life EXCEPT ![e.ID] = lifeAfter]
  /\ pending' = [pending EXCEPT ![e.ID] = IF r.ret THEN "none" ELSE pendingAfter]
  /\ now' = IF now < MaxTime THEN now + 1 ELSE now
  /\ UNCHANGED <<hits, decoded, proc, mapBusy, crashed, expected>>

AddInputs(ids) ==
  {NewElement(id) : id \in {i \in ids : life[i] = "none"}}
  \cup {graph[id] : id \in {i \in ids : pending[i] = "add"}}

CallNodeAdded ==
  \E n \in AddInputs(NodeIDs) : \E r \in NodeAdded(Backend, n) :
    Deliver("NodeAdded", n, r, "live", "add")

CallEdgeAdded ==
  \E e \in AddInputs(EdgeIDs) : \E r \in EdgeAdded(Backend, e) :
    Deliver("EdgeAdded", e, r, "live", "add")

UpdateInputs ==
  {[graph[id] EXCEPT !.revision = @ + 1, !.metadata = MetadataAt(id, graph[id].revision + 1),
                     !.updatedAt = now] :
     id \in {i \in IDs : life[i] = "live" /\ graph[i].revision < MaxRev}}
  \cup {graph[id] : id \in {i \in IDs : life[i] = "live" /\ pending[i] = "update"}}

CallMetadataUpdated ==
  \E i \in UpdateInputs : \E r \in MetadataUpdated(Backend, i) :
    Deliver("MetadataUpdated", i, r, "live", "update")

DeleteInputs(ids) ==
  {[graph[id] EXCEPT !.deletedAt = now] : id \in {i \in ids : life[i] = "live"}}
  \cup {graph[id] : id \in {i \in ids : pending[i] = "delete"}}

CallNodeDeleted ==
  \E n \in DeleteInputs(NodeIDs) : \E r \in NodeDeleted(Backend, n) :
    Deliver("NodeDeleted", n, r, "deleted", "delete")

CallEdgeDeleted ==
  \E e \in DeleteInputs(EdgeIDs) : \E r \in EdgeDeleted(Backend, e) :
    Deliver("EdgeDeleted", e, r, "deleted", "delete")

ZeroElement(id) ==
  LET base == [type |-> KindOf(id), ID |-> id, host |-> "", createdAt |-> 0,
               updatedAt |-> 0, deletedAt |-> 0, metadata |-> <<>>, revision |-> 0]
  IN IF id \in EdgeIDs THEN Merge([parent |-> "", child |-> ""], base) ELSE base

NoHits == [kind |-> "node", list |-> <<>>]

\* The concurrent callers, and the ID whose events each of them delivers.
Workers == {"w1", "w2"}

Owner(w) == IF w = "w1" THEN "n1" ELSE "e1"

Idle ==
  [pc |-> "idle", elem |-> ZeroNode, mapOp |-> "set", next |-> "idle",
   shouldRoll |-> FALSE, rolling |-> FALSE, lost |-> FALSE,
   fetched |-> <<>>, todo |-> <<>>]

NoCallers ==
  /\ proc = [w \in Workers |-> Idle]
  /\ mapBusy = {}
  /\ crashed = FALSE
  /\ expected = EmptyMap

NotDecoded == [done |-> FALSE, elems |-> <<>>]

BackendInit ==
  /\ es = EmptyMap
  /\ alias = 1
  /\ prevRevision = EmptyMap
  /\ graph = [id \in IDs |-> ZeroElement(id)]
  /\ life = [id \in IDs |-> "none"]
  /\ pending = [id \in IDs |-> "none"]
  /\ now = 1
  /\ last = [op |-> "none", elem |-> ZeroElement("n1"), ret |-> FALSE, retry |-> FALSE]
  /\ calls = <<>>
  /\ rolls = <<>>
  /\ lastIndexed = EmptyMap
  /\ faults = 0

Init ==
  /\ BackendInit
  /\ hits = NoHits
  /\ decoded = NotDecoded
  /\ NoCallers

Next ==
  \/ CallNodeAdded
  \/ CallEdgeAdded
  \/ CallMetadataUpdated
  \/ CallNodeDeleted
  \/ CallEdgeDeleted

Spec == Init /\ [][Next]_vars

\* The queries (GetNode, GetEdge, GetNodes, GetEdges, GetNodeEdges) read the
\* backend state and change none of it: the states they can run in are those
\* the event handlers reach.  The properties of the queries are stated over
\* this specification.
QuerySpec == Init /\ [][Next]_vars

\* The archival path (updateTimes, rollAndDumpTopology) runs inside the event
\* handlers, so the states and call logs it is judged on are those of the same
\* behaviours.  The properties of the archival path are stated over this
\* specification.
ArchivalSpec == Init /\ [][Next]_vars

\* A caller that goes on updating an element after it has deleted it: the
\* update carries the next revision of the deleted element.
LateUpdateInputs ==
  {[graph[id] EXCEPT !.revision = @ + 1, !.metadata = MetadataAt(id, graph[id].revision + 1),
                     !.updatedAt = now] :
     id \in {i \in IDs : life[i] = "deleted" /\ graph[i].revision < MaxRev}}

CallLateMetadataUpdated ==
  \E i \in LateUpdateInputs : \E r \in MetadataUpdated(Backend, i) :
    Deliver("MetadataUpdated", i, r, "deleted", pending[i.ID])

LateNext ==
  \/ Next
  \/ CallLateMetadataUpdated

\* The event handlers under a caller that may update what it has deleted.
LateSpec == Init /\ [][LateNext]_vars

\* A store that can roll its index twice: the live alias starts two indices
\* below the last one.
TwoRollsInit ==
  /\ es = EmptyMap
  /\ alias = MaxIndex - 2
  /\ prevRevision = EmptyMap
  /\ graph = [id \in IDs |-> ZeroElement(id)]
  /\ life = [id \in IDs |-> "none"]
  /\ pending = [id \in IDs |-> "none"]
  /\ now = 1
  /\ last = [op |-> "none", elem |-> ZeroElement("n1"), ret |-> FALSE, retry |-> FALSE]
  /\ calls = <<>>
  /\ rolls = <<>>
  /\ lastIndexed = EmptyMap
  /\ faults = 0
  /\ hits = NoHits
  /\ decoded = NotDecoded
  /\ NoCallers

\* The event handlers over that store.
TwoRollsSpec == TwoRollsInit /\ [][Next]_vars

\* The backend as the constructor leaves it.
FreshBackend ==
  [es |-> EmptyMap, alias |-> 1, prev |-> EmptyMap, calls |-> <<>>,
   rolls |-> <<>>, depth |-> 0, faults |-> 0]

\* The first node, created at time 1.
FirstNode == [NewElement("n1") EXCEPT !.createdAt = 1, !.updatedAt = 1]

\* The states a first NodeAdded leaves whose rollover met a failing store
\* call: a Search (the live set is fetched empty), the archival (the node
\* stays live in the old index), RollIndex (the node is archived in the index
\* that is still the live one) or the re-creation.  The store failures
\* counted from here on are those that follow it.
FaultyRollInit ==
  /\ now = 2
  /\ \E r \in {x \in NodeAdded(FreshBackend, FirstNode) : x.st.faults > 0 /\ x.st.rolls # <<>>} :
       /\ es = r.st.es
       /\ alias = r.st.alias
       /\ prevRevision = r.st.prev
       /\ calls = r.st.calls
       /\ rolls = r.st.rolls
       /\ last = [op |-> "NodeAdded", elem |-> FirstNode, ret |-> r.ret, retry |-> FALSE]
       /\ pending = [id \in IDs |-> IF id = "n1" /\ ~r.ret THEN "add" ELSE "none"]
  /\ graph = [id \in IDs |-> IF id = "n1" THEN FirstNode ELSE ZeroElement(id)]
  /\ life = [id \in IDs |-> IF id = "n1" THEN "live" ELSE "none"]
  /\ lastIndexed = EmptyMap
  /\ faults = 0
  /\ hits = NoHits
  /\ decoded = NotDecoded
  /\ NoCallers

\* The event handlers from there on.
FaultyRollSpec == FaultyRollInit /\ [][Next]_vars

----------------------------------------------------------------------------
\* The decoding loop of searchNodes / searchEdges on its own, over the search
\* outputs the store can hand it: up to MaxHits hits, each the source of a
\* document of the kind or a source that does not decode.

SampleElement(id, revision) ==
  LET base == [type |-> KindOf(id), ID |-> id, host |-> Host, createdAt |-> 1,
               updatedAt |-> 1, deletedAt |-> 0, metadata |-> MetadataAt(id, revision),
               revision |-> revision]
  IN IF id \in EdgeIDs
     THEN Merge([parent |-> EdgeParent, child |-> EdgeChild], base)
     ELSE base

SampleHits(kind) ==
  {Malformed} \cup
  (IF kind = "edge"
   THEN {mapEdge(SampleElement(id, r)) : id \in EdgeIDs, r \in 0..MaxRev}
   ELSE {mapNode(SampleElement(id, r)) : id \in NodeIDs, r \in 0..MaxRev})

HitLists(kind) ==
  UNION {[1..n -> SampleHits(kind)] : n \in 0..MaxHits}

DecodeInit ==
  /\ BackendInit
  /\ NoCallers
  /\ \E kind \in {"node", "edge"} : \E hs \in HitLists(kind) :
       hits = [kind |-> kind, list |-> hs]
  /\ decoded = NotDecoded

SearchNodesDecode ==
  /\ hits.kind = "node"
  /\ ~decoded.done
  /\ decoded' = [done |-> TRUE, elems |-> decodeNodes(hits.list)]
  /\ UNCHANGED <<es, alias, prevRevision, graph, life, pending, now, last, calls,
                 rolls, lastIndexed, faults, hits, proc, mapBusy, crashed, expected>>

SearchEdgesDecode ==
  /\ hits.kind = "edge"
  /\ ~decoded.done
  /\ decoded' = [done |-> TRUE, elems |-> decodeEdges(hits.list)]
  /\ UNCHANGED <<es, alias, prevRevision, graph, life, pending, now, last, calls,
                 rolls, lastIndexed, faults, hits, proc, mapBusy, crashed, expected>>

DecodeNext == SearchNodesDecode \/ SearchEdgesDecode

DecodeSpec == DecodeInit /\ [][DecodeNext]_vars

----------------------------------------------------------------------------
\* The handlers run by concurrent callers.  The backend holds no lock, so a
\* handler is a sequence of steps, one per store call and per access to the
\* prevRevision map, and the steps of the callers interleave.  A write to a Go
\* map is not atomic: it begins and ends, and an access to the map that
\* overlaps a write is a data race, after which the runtime may stop the
\* process ("concurrent map writes"), the write may be lost, or both accesses
\* may land.  Each caller delivers the events of one ID, in order.  The store
\* does not fail here and signals the rollover threshold once.

NoFaultBackend == [Backend EXCEPT !.faults = MaxFaults]

At(w, pc) == ~crashed /\ proc[w].pc = pc

Goto(w, p) == proc' = [proc EXCEPT ![w] = p]

Return(w) == Goto(w, Idle)

Rolling == \E w \in Workers : proc[w].rolling \/ proc[w].shouldRoll

ConcFrame == UNCHANGED <<pending, last, calls, rolls, lastIndexed, faults, hits, decoded>>

\* The caller picks up the next event of its ID and enters the handler.
ConcAdded(w) ==
  /\ At(w, "idle")
  /\ life[Owner(w)] = "none"
  /\ LET e == NewElement(Owner(w))
     IN /\ Goto(w, [Idle EXCEPT !.pc = "index", !.elem = e])
        /\ graph' = [graph EXCEPT ![e.ID] = e]
        /\ life' = [life EXCEPT ![e.ID] = "live"]
  /\ UNCHANGED <<es, alias, prevRevision, now, mapBusy, crashed, expected>>
  /\ ConcFrame

ConcMetadataUpdated(w) ==
  /\ At(w, "idle")
  /\ life[Owner(w)] = "live"
  /\ graph[Owner(w)].revision < MaxRev
  /\ LET e == [graph[Owner(w)] EXCEPT !.revision = @ + 1,
                                      !.metadata = MetadataAt(Owner(w), graph[Owner(w)].revision + 1),
                                      !.updatedAt = now]
     IN /\ Goto(w, [Idle EXCEPT !.pc = "archive", !.elem = e])
        /\ graph' = [graph EXCEPT ![e.ID] = e]
  /\ UNCHANGED <<es, alias, prevRevision, life, now, mapBusy, crashed, expected>>
  /\ ConcFrame

ConcDeleted(w) ==
  /\ At(w, "idle")
  /\ life[Owner(w)] = "live"
  /\ LET e == [graph[Owner(w)] EXCEPT !.deletedAt = now]
     IN /\ Goto(w, [Idle EXCEPT !.pc = "mapWrite", !.elem = e, !.mapOp = "delete",
                                !.next = "markDeleted"])
        /\ graph' = [graph EXCEPT ![e.ID] = e]
        /\ life' = [life EXCEPT ![e.ID] = "deleted"]
  /\ UNCHANGED <<es, alias, prevRevision, now, mapBusy, crashed, expected>>
  /\ ConcFrame

\* updateTimes: the tracker is read, then the partial update is sent.  It is
\* the first step of MetadataUpdated and the body of the archival loop of a
\* rollover, which ignores its result.
ConcUpdateTimes(w) ==
  /\ \/ At(w, "archive")
     \/ At(w, "archiveLoop") /\ proc[w].todo # <<>>
  /\ LET p == proc[w]
         e == IF p.rolling THEN Head(p.todo) ELSE p.elem
     IN \/ /\ mapBusy # {}
           /\ crashed' = TRUE
           /\ UNCHANGED <<es, proc>>
        \/ \E r \in updateTimes(NoFaultBackend, e) :
             /\ es' = r.st.es
             /\ crashed' = crashed
             /\ IF p.rolling THEN Goto(w, [p EXCEPT !.todo = Tail(@)])
                ELSE IF r.ret THEN Goto(w, [p EXCEPT !.pc = "index"])
                ELSE Return(w)
  /\ UNCHANGED <<alias, prevRevision, graph, life, now, mapBusy, expected>>
  /\ ConcFrame

\* createNode / createEdge: BulkIndex, then the tracker write.
ConcBulkIndex(w) ==
  /\ At(w, "index")
  /\ LET p == proc[w]
         e == p.elem
     IN \E r \in (IF IsEdge(e)
                  THEN BulkIndex(NoFaultBackend, "edge", DocID(e.ID, e.revision), mapEdge(e))
                  ELSE BulkIndex(NoFaultBackend, "node", DocID(e.ID, e.revision), mapNode(e))) :
          /\ r.shouldRoll => (alias = 1 /\ ~Rolling)
          /\ es' = r.st.es
          /\ Goto(w, [p EXCEPT !.pc = "mapWrite", !.mapOp = "set", !.next = "created",
                               !.shouldRoll = r.shouldRoll])
  /\ UNCHANGED <<alias, prevRevision, graph, life, now, mapBusy, crashed, expected>>
  /\ ConcFrame

\* b.prevRevision[ID] = revision, or delete(b.prevRevision, ID), begins.
MapWriteBegin(w) ==
  /\ At(w, "mapWrite")
  /\ \/ /\ mapBusy # {}
        /\ crashed' = TRUE
        /\ UNCHANGED <<proc, mapBusy>>
     \/ /\ \E lost \in {l \in BOOLEAN : l => mapBusy # {}} :
             Goto(w, [proc[w] EXCEPT !.pc = "mapWriting", !.lost = lost])
        /\ mapBusy' = mapBusy \cup {w}
        /\ crashed' = crashed
  /\ UNCHANGED <<es, alias, prevRevision, graph, life, now, expected>>
  /\ ConcFrame

\* The map write ends; the handler goes on: to the rollover when BulkIndex
\* asked for it, to the next element when it is re-creating, or it returns.
MapWriteEnd(w) ==
  /\ At(w, "mapWriting")
  /\ LET p == proc[w]
         id == p.elem.ID
         done == IF p.mapOp = "delete" THEN Remove(prevRevision, id)
                 ELSE Put(prevRevision, id, p.elem.revision)
     IN /\ prevRevision' = IF p.lost THEN prevRevision ELSE done
        /\ expected' = IF p.rolling THEN expected
                       ELSE IF p.mapOp = "delete" THEN Remove(expected, id)
                       ELSE Put(expected, id, p.elem.revision)
        /\ IF p.next = "markDeleted" THEN Goto(w, [p EXCEPT !.pc = "markDeleted"])
           ELSE IF p.rolling
                THEN IF p.todo = <<>> THEN Return(w) ELSE Goto(w, [p EXCEPT !.pc = "recreate"])
                ELSE IF p.shouldRoll THEN Goto(w, [p EXCEPT !.pc = "fetchNodes"])
                ELSE Return(w)
  /\ mapBusy' = mapBusy \ {w}
  /\ UNCHANGED <<es, alias, graph, life, now, crashed>>
  /\ ConcFrame

\* NodeDeleted / EdgeDeleted after the tracker entry is removed.
ConcMarkDeleted(w) ==
  /\ At(w, "markDeleted")
  /\ LET e == proc[w].elem
         obj == [DeletedAt |-> e.deletedAt, ArchivedAt |-> e.deletedAt]
     IN \E r \in BulkUpdateWithPartialDoc(NoFaultBackend, KindOf(e.ID),
                                          DocID(e.ID, e.revision), obj) :
          es' = r.st.es
  /\ Return(w)
  /\ UNCHANGED <<alias, prevRevision, graph, life, now, mapBusy, crashed, expected>>
  /\ ConcFrame

\* rollAndDumpTopology, step by step.
ConcGetNodes(w) ==
  /\ At(w, "fetchNodes")
  /\ \E r \in GetNodes(NoFaultBackend, [TimeSlice |-> <<>>, TimePoint |-> FALSE], <<>>) :
       Goto(w, [proc[w] EXCEPT !.pc = "fetchEdges", !.rolling = TRUE, !.shouldRoll = FALSE,
                               !.fetched = Stamped(r.nodes)])
  /\ UNCHANGED <<es, alias, prevRevision, graph, life, now, mapBusy, crashed, expected>>
  /\ ConcFrame

ConcGetEdges(w) ==
  /\ At(w, "fetchEdges")
  /\ \E r \in GetEdges(NoFaultBackend, [TimeSlice |-> <<>>, TimePoint |-> FALSE], <<>>) :
       Goto(w, [proc[w] EXCEPT !.pc = "archiveLoop",
                               !.fetched = @ \o Stamped(r.edges),
                               !.todo = proc[w].fetched \o Stamped(r.edges)])
  /\ UNCHANGED <<es, alias, prevRevision, graph, life, now, mapBusy, crashed, expected>>
  /\ ConcFrame

ConcRollIndex(w) ==
  /\ At(w, "archiveLoop")
  /\ proc[w].todo = <<>>
  /\ \E r \in RollIndex(NoFaultBackend) :
       /\ alias' = r.st.alias
       /\ IF proc[w].fetched = <<>> THEN Return(w)
          ELSE Goto(w, [proc[w] EXCEPT !.pc = "recreate", !.todo = proc[w].fetched])
  /\ UNCHANGED <<es, prevRevision, graph, life, now, mapBusy, crashed, expected>>
  /\ ConcFrame

ConcRecreate(w) ==
  /\ At(w, "recreate")
  /\ Goto(w, [proc[w] EXCEPT !.pc = "index", !.elem = Head(proc[w].todo), !.todo = Tail(@)])
  /\ UNCHANGED <<es, alias, prevRevision, graph, life, now, mapBusy, crashed, expected>>
  /\ ConcFrame

ConcNext ==
  \E w \in Workers :
    \/ ConcAdded(w)
    \/ ConcMetadataUpdated(w)
    \/ ConcDeleted(w)
    \/ ConcUpdateTimes(w)
    \/ ConcBulkIndex(w)
    \/ MapWriteBegin(w)
    \/ MapWriteEnd(w)
    \/ ConcMarkDeleted(w)
    \/ ConcGetNodes(w)
    \/ ConcGetEdges(w)
    \/ ConcRollIndex(w)
    \/ ConcRecreate(w)

ConcSpec == Init /\ [][ConcNext]_vars

----------------------------------------------------------------------------
\* Vocabulary of the properties.

DocsOf(id) == {k \in DOMAIN es : es[k].ID = id}

Archived(store, k) == "ArchivedAt" \in DOMAIN store[k]

LiveDocs(id) == {k \in DOMAIN es : es[k].ID = id /\ ~Archived(es, k)}

WriteOps == {"NodeAdded", "EdgeAdded", "MetadataUpdated"}

DeleteOps == {"NodeDeleted", "EdgeDeleted"}

\* C1: for every ID at most one persisted document, counted over all
\* indices, has no ArchivedAt value.
C1_AtMostOneLiveDocument ==
  \A id \in IDs : Cardinality(LiveDocs(id)) <= 1

\* C2: whenever MetadataUpdated returns true, every document of the revision
\* the tracker held before the call has ArchivedAt set, and the document of
\* the new revision in the live index exists and has no ArchivedAt.
C2_Step ==
  (last'.op = "MetadataUpdated" /\ last'.ret) =>
    LET id == last'.elem.ID
        new == <<alias', KindOf(id), DocID(id, last'.elem.revision)>>
    IN /\ id \in DOMAIN prevRevision
       /\ prevRevision[id] # last'.elem.revision =>
            \A k \in DOMAIN es' :
              k[3] = DocID(id, prevRevision[id]) => Archived(es', k)
       /\ new \in DOMAIN es'
       /\ ~Archived(es', new)

\* C2: every step that is a MetadataUpdated returning true leaves the old
\* revision archived and the new revision live in the live index.
C2_ArchiveBeforeWrite == [][C2_Step]_vars

\* C3: when the archival step of MetadataUpdated fails (the tracker has no
\* entry, or the store rejects the partial update), MetadataUpdated returns
\* false, no BulkIndex is issued and the tracker is unchanged.
ArchivalFailed ==
  /\ last'.op = "MetadataUpdated"
  /\ \/ last'.elem.ID \notin DOMAIN prevRevision
     \/ /\ calls' # <<>>
        /\ calls'[1].op = "BulkUpdateWithPartialDoc"
        /\ ~calls'[1].ok

C3_Step ==
  ArchivalFailed =>
    /\ ~last'.ret
    /\ \A i \in 1..Len(calls') : calls'[i].op # "BulkIndex"
    /\ prevRevision' = prevRevision

\* C3: every step that is a MetadataUpdated whose archival failed returns
\* false, issues no BulkIndex and leaves the tracker unchanged.
C3_NoWriteAfterFailedArchival == [][C3_Step]_vars

\* A MetadataUpdated whose partial update the store rejected.
C3_Witness ==
  /\ last.op = "MetadataUpdated"
  /\ ~last.ret
  /\ Len(calls) = 1
  /\ calls[1].op = "BulkUpdateWithPartialDoc"
  /\ ~calls[1].ok
  /\ last.elem.ID \in DOMAIN prevRevision

\* C4: whenever NodeDeleted or EdgeDeleted returns true, the tracker has no
\* entry for the ID and the document the deletion was applied to carries
\* DeletedAt and ArchivedAt, both equal to the element's deletion time.
C4_DeleteTerminal ==
  (last.op \in DeleteOps /\ last.ret) =>
    LET id == last.elem.ID
        key == <<alias, KindOf(id), DocID(id, last.elem.revision)>>
    IN /\ id \notin DOMAIN prevRevision
       /\ key \in DOMAIN es
       /\ "DeletedAt" \in DOMAIN es[key]
       /\ "ArchivedAt" \in DOMAIN es[key]
       /\ es[key].DeletedAt = es[key].ArchivedAt
       /\ es[key].DeletedAt = last.elem.deletedAt

\* A node deleted, with success, later than its last update.
C4_Witness ==
  /\ last.op = "NodeDeleted"
  /\ last.ret
  /\ last.elem.deletedAt > last.elem.updatedAt

DeletedOk(id) == life[id] = "deleted" /\ pending[id] = "none"

SearchOk(r) == r.st.calls # <<>> /\ r.st.calls[Len(r.st.calls)].ok

\* C5: after a successful NodeDeleted for an ID, a current GetNode (no time
\* slice) returns no node, and a GetNode over the time slice from the
\* element's creation to its deletion returns the deleted document.
C5_DeletedNodeIsHistory ==
  \A id \in NodeIDs : DeletedOk(id) =>
    /\ \A tp \in BOOLEAN :
         \A r \in GetNode(Backend, id, [TimeSlice |-> <<>>, TimePoint |-> tp]) :
           r.nodes = <<>>
    /\ \A r \in GetNode(Backend, id,
                        [TimeSlice |-> <<[Start |-> graph[id].createdAt,
                                          Last |-> graph[id].deletedAt]>>,
                         TimePoint |-> FALSE]) :
         SearchOk(r) =>
           /\ \A i \in 1..Len(r.nodes) : r.nodes[i].ID = id
           /\ \E i \in 1..Len(r.nodes) :
                /\ r.nodes[i].revision = graph[id].revision
                /\ r.nodes[i].deletedAt = graph[id].deletedAt

\* A node deleted with success at revision 1, after a rollover.
C5_Witness ==
  /\ DeletedOk("n1")
  /\ graph["n1"].revision = 1
  /\ alias > 1

LiveRevisions(id) ==
  {es[k].Revision : k \in {c \in LiveDocs(id) : "DeletedAt" \notin DOMAIN es[c]}}

SubmittedRevs(id) ==
  (IF id \in DOMAIN lastIndexed THEN <<lastIndexed[id]>> ELSE <<>>)
  \o IndexedRevs(calls, id)

\* C7 as claimed: for any ID the revisions submitted to BulkIndex over time
\* are strictly increasing, when the caller supplies a new, higher revision
\* (the call is not the redelivery of a failed event).
C7_StrictlyIncreasing ==
  ~last.retry =>
    \A id \in IDs : \A i \in 1..(Len(SubmittedRevs(id)) - 1) :
      SubmittedRevs(id)[i] < SubmittedRevs(id)[i + 1]

\* C7 as amended: the revisions submitted to BulkIndex for an ID never
\* decrease; a rollover re-creation and a redelivered event submit the
\* revision already written.
C7_NeverDecreasing ==
  \A id \in IDs : \A i \in 1..(Len(SubmittedRevs(id)) - 1) :
    SubmittedRevs(id)[i] <= SubmittedRevs(id)[i + 1]

\* An update to revision 1 whose write triggered a rollover that re-created
\* the element: revisions 0, 1, 1.
C7_Witness ==
  /\ last.op = "MetadataUpdated"
  /\ ~last.retry
  /\ SubmittedRevs(last.elem.ID) = <<0, 1, 1>>

RolloverSteps == {"BulkUpdateWithPartialDoc", "RollIndex", "BulkIndex"}

\* C8: if a step of a rollover fails (archiving an element, RollIndex,
\* re-creating an element), the rollover stops at that step and returns an
\* error, and the write that triggered it returns false.
C8_RolloverAbortsOnFailure ==
  \A j \in 1..Len(rolls) : \A i \in (rolls[j].from + 1)..rolls[j].to :
    (calls[i].depth = rolls[j].depth /\ ~calls[i].ok /\ calls[i].op \in RolloverSteps) =>
      /\ rolls[j].err
      /\ i = rolls[j].to
      /\ rolls[j].depth = 1 => ~last.ret

LiveKeys(s) == {k \in DOMAIN s.es : k[1] = s.alias /\ ~Archived(s.es, k)}

LiveSet(s) == {<<s.es[k].ID, s.es[k].Revision, s.es[k].Metadata>> : k \in LiveKeys(s)}

Completed(roll) ==
  /\ ~roll.err
  /\ \A i \in (roll.from + 1)..roll.to : calls[i].ok

TimeSlices ==
  {<<>>} \cup {<<[Start |-> a, Last |-> b]>> : a \in 1..MaxTime, b \in 1..MaxTime}

TimePointContexts == {[TimeSlice |-> ts, TimePoint |-> TRUE] : ts \in TimeSlices}

MatchAll == [type |-> "and", filters |-> <<>>]

\* The documents of a kind that a query with time context t and filter f matches.
MatchedDocs(kind, t, f) ==
  {es[k] : k \in {c \in DOMAIN es :
                    /\ c[2] = kind
                    /\ t.TimeSlice = <<>> => c[1] = alias
                    /\ Match(getTimeFilter(t.TimeSlice), es[c])
                    /\ Match(f, es[c])}}

OncePerID(elems) ==
  \A i \in 1..Len(elems) : \A j \in 1..Len(elems) :
    elems[i].ID = elems[j].ID => i = j

GreatestRevisions(elems, matched) ==
  \A i \in 1..Len(elems) : \A d \in matched :
    d.ID = elems[i].ID => d.Revision <= elems[i].revision

SortedBy(r, field) == SearchOk(r) /\ r.st.calls[Len(r.st.calls)].id[1] = field

C10_SingleLookups ==
  \A t \in TimePointContexts :
    /\ \A id \in NodeIDs : \A r \in GetNode(Backend, id, t) :
         /\ OncePerID(r.nodes)
         /\ GreatestRevisions(r.nodes, MatchedDocs("node", t, NewTermStringFilter("ID", id)))
    /\ \A id \in EdgeIDs : \A r \in GetEdge(Backend, id, t) :
         /\ OncePerID(r.edges)
         /\ GreatestRevisions(r.edges, MatchedDocs("edge", t, NewTermStringFilter("ID", id)))

C10_BulkGreatest ==
  \A t \in TimePointContexts :
    /\ \A r \in GetNodes(Backend, t, <<>>) :
         /\ OncePerID(r.nodes)
         /\ GreatestRevisions(r.nodes, MatchedDocs("node", t, MatchAll))
    /\ \A r \in GetEdges(Backend, t, <<>>) :
         /\ OncePerID(r.edges)
         /\ GreatestRevisions(r.edges, MatchedDocs("edge", t, MatchAll))
    /\ \A n \in {EdgeParent, EdgeChild} : \A r \in GetNodeEdges(Backend, [ID |-> n], t, <<>>) :
         /\ OncePerID(r.edges)
         /\ GreatestRevisions(r.edges, MatchedDocs("edge", t, NewFilterForEdge(n, n)))

C10_BulkSorted ==
  \A t \in TimePointContexts :
    /\ \A r \in GetNodes(Backend, t, <<>>) : r.nodes # <<>> => SortedBy(r, "UpdatedAt")
    /\ \A r \in GetEdges(Backend, t, <<>>) : r.edges # <<>> => SortedBy(r, "UpdatedAt")
    /\ \A n \in {EdgeParent, EdgeChild} : \A r \in GetNodeEdges(Backend, [ID |-> n], t, <<>>) :
         r.edges # <<>> => SortedBy(r, "UpdatedAt")

AllContexts == {[TimeSlice |-> ts, TimePoint |-> tp] : ts \in TimeSlices, tp \in BOOLEAN}

BulkSortField(t) == IF t.TimePoint THEN "" ELSE "UpdatedAt"

C10_BulkOncePerID ==
  \A t \in TimePointContexts :
    /\ \A r \in GetNodes(Backend, t, <<>>) : OncePerID(r.nodes)
    /\ \A r \in GetEdges(Backend, t, <<>>) : OncePerID(r.edges)
    /\ \A n \in {EdgeParent, EdgeChild} :
         \A r \in GetNodeEdges(Backend, [ID |-> n], t, <<>>) : OncePerID(r.edges)

C10_BulkSortsWhenNotTimePoint ==
  \A t \in AllContexts :
    /\ \A r \in GetNodes(Backend, t, <<>>) : SearchOk(r) => SortedBy(r, BulkSortField(t))
    /\ \A r \in GetEdges(Backend, t, <<>>) : SearchOk(r) => SortedBy(r, BulkSortField(t))
    /\ \A n \in {EdgeParent, EdgeChild} :
         \A r \in GetNodeEdges(Backend, [ID |-> n], t, <<>>) :
           SearchOk(r) => SortedBy(r, BulkSortField(t))

LookupResults(id, t) ==
  IF id \in EdgeIDs
  THEN {r.edges : r \in {x \in GetEdge(Backend, id, t) : SearchOk(x)}}
  ELSE {r.nodes : r \in {x \in GetNode(Backend, id, t) : SearchOk(x)}}

Current(tp) == [TimeSlice |-> <<>>, TimePoint |-> tp]

\* The time slice from the creation of the last handler's element to now.
SinceCreation ==
  [TimeSlice |-> <<[Start |-> last.elem.createdAt, Last |-> now]>>, TimePoint |-> FALSE]

RevisionsIn(elems) == {elems[i].revision : i \in 1..Len(elems)}

CreatedIsCurrent ==
  \A tp \in BOOLEAN : \A s \in LookupResults(last.elem.ID, Current(tp)) :
    Len(s) = 1 /\ s[1].revision = 0

UpdatedIsCurrent ==
  \A s \in LookupResults(last.elem.ID, Current(TRUE)) :
    Len(s) = 1 /\ s[1].revision = last.elem.revision

CallClean == \A i \in 1..Len(calls) : calls[i].ok

\* The revisions of an ID that the store holds a document of.
PersistedRevisions(id) == {es[k].Revision : k \in DocsOf(id)}

FailedWrite == last'.op \in WriteOps /\ ~last'.ret

\* The handler's own BulkIndex (not one of a rollover) succeeded.
Wrote(log) ==
  \E i \in 1..Len(log) : log[i].op = "BulkIndex" /\ log[i].depth = 0 /\ log[i].ok

C12_Step == FailedWrite => (es' = es /\ prevRevision' = prevRevision)

\* C12 as claimed: whenever NodeAdded, EdgeAdded or MetadataUpdated returns
\* false, the store and the tracker hold what they held before the call.
C12_FailedWriteLeavesNoTrace == [][C12_Step]_vars

C12_AmendedStep ==
  FailedWrite =>
    LET id == last'.elem.ID
        new == <<alias, KindOf(id), DocID(id, last'.elem.revision)>>
    IN IF Wrote(calls')
       THEN /\ id \in DOMAIN prevRevision'
            /\ prevRevision'[id] = last'.elem.revision
            /\ new \in DOMAIN es'
            /\ rolls' # <<>>
            /\ rolls'[Len(rolls')].err
       ELSE /\ prevRevision' = prevRevision
            /\ DOMAIN es' = DOMAIN es
            /\ \A k \in DOMAIN es :
                 \/ es'[k] = es[k]
                 \/ /\ last'.op = "MetadataUpdated"
                    /\ k = <<alias, KindOf(id), DocID(id, prevRevision[id])>>
                    /\ es'[k] = Merge([ArchivedAt |-> last'.elem.updatedAt], es[k])

\* C12 as amended: a write that returns false because its own BulkIndex or
\* its archival failed persists no document and leaves the tracker unchanged,
\* but a MetadataUpdated whose archival succeeded leaves the tracked revision
\* archived; a write that returns false because the rollover it triggered
\* failed has persisted the new revision and recorded it in the tracker.
C12_FailedWriteEffects == [][C12_AmendedStep]_vars

\* A write that returned false after its document was persisted and tracked:
\* the rollover it triggered failed.
C12_Witness ==
  /\ last.op \in WriteOps
  /\ ~last.ret
  /\ Wrote(calls)
  /\ last.elem.ID \in DOMAIN prevRevision
  /\ prevRevision[last.elem.ID] = last.elem.revision

ArchivedKeys(store) == {k \in DOMAIN store : Archived(store, k)}

\* Replays the store calls of a handler over the set A of archived documents
\* and the live index al: TRUE when a partial update, which always carries
\* ArchivedAt, lands on a document that is archived already.
RECURSIVE Rearchives(_, _, _)
Rearchives(log, A, al) ==
  IF log = <<>> THEN FALSE
  ELSE LET c == Head(log)
           key == <<al, c.kind, c.id>>
       IN IF ~c.ok THEN Rearchives(Tail(log), A, al)
          ELSE CASE c.op = "BulkIndex" -> Rearchives(Tail(log), A \ {key}, al)
                 [] c.op = "RollIndex" -> Rearchives(Tail(log), A, al + 1)
                 [] c.op = "BulkUpdateWithPartialDoc" ->
                      key \in A \/ Rearchives(Tail(log), A \cup {key}, al)
                 [] OTHER -> Rearchives(Tail(log), A, al)

C13_Step == ~Rearchives(calls', ArchivedKeys(es), alias)

\* C13: once a persisted document has an ArchivedAt value, no later operation
\* (MetadataUpdated, a retried MetadataUpdated, a deletion or a rollover)
\* writes ArchivedAt on that document again.
C13_ArchivedOnce == [][C13_Step]_vars

\* The elements of the hits that decode, in the order of the hits.
DecodedOnly(h) ==
  LET good == SelectSeq(h.list, LAMBDA d : ~IsMalformed(d))
  IN IF h.kind = "edge" THEN decodeEdges(good) ELSE decodeNodes(good)

\* C14: the list searchNodes / searchEdges returns holds exactly one element
\* per hit that decoded, in order, and none for a hit that failed to decode.
C14_FailedHitsDropped ==
  decoded.done => decoded.elems = DecodedOnly(hits)

AllReturned == \A w \in Workers : proc[w].pc = "idle"

\* C15: with write operations on different IDs invoked concurrently, the
\* process keeps running and, once all calls have returned, each ID's tracker
\* entry is what the operations on that ID alone produce.
C15_TrackerSafeAcrossIDs ==
  /\ ~crashed
  /\ AllReturned => prevRevision = expected

\* The steps of a handler that write to the store or to the tracker.
WriteSteps == {"archive", "index", "mapWrite", "mapWriting", "markDeleted"}

\* The caller has fetched the live set of a rollover and not yet re-created
\* its last element.
InRollover(p) == p.rolling /\ p.pc # "fetchEdges"

C16_Step ==
  \A w \in Workers : \A v \in Workers \ {w} :
    (InRollover(proc[v]) /\ proc'[w] # proc[w]) =>
      (proc[w].rolling \/ proc[w].pc \notin WriteSteps)

\* C16: while a rollover is in progress no create, update or delete of
\* another caller performs its store write or its tracker change.
C16_RolloverExcludesWrites == [][C16_Step]_vars

\* The store calls a rollover made itself, as positions in the call log.
OwnCalls(roll) ==
  {i \in (roll.from + 1)..roll.to : calls[i].depth = roll.depth}

OwnCallsOf(roll, op) == {i \in OwnCalls(roll) : calls[i].op = op}

\* The (ID, revision) pairs of the documents a rollover finds live when it
\* starts.
FetchedRevisions(roll) ==
  {<<roll.before.es[k].ID, roll.before.es[k].Revision>> : k \in LiveKeys(roll.before)}

\* C17: within one rollover every archival partial update precedes the
\* RollIndex call, RollIndex precedes every BulkIndex that re-creates a
\* fetched element, and each re-created element is written with the revision
\* it was fetched with.
C17_RolloverOrder ==
  \A j \in 1..Len(rolls) :
    LET roll == rolls[j]
    IN /\ Cardinality(OwnCallsOf(roll, "RollIndex")) = 1
       /\ \A r \in OwnCallsOf(roll, "RollIndex") :
            /\ \A a \in OwnCallsOf(roll, "BulkUpdateWithPartialDoc") : a < r
            /\ \A c \in OwnCallsOf(roll, "BulkIndex") : r < c /\ calls[r].ok
       /\ \A c \in OwnCallsOf(roll, "BulkIndex") : calls[c].id \in FetchedRevisions(roll)

\* A rollover that archived and re-created a node and an edge, one of them
\* at revision 1.
C17_Witness ==
  \E j \in 1..Len(rolls) :
    /\ Cardinality(OwnCallsOf(rolls[j], "BulkUpdateWithPartialDoc")) = 2
    /\ Cardinality(OwnCallsOf(rolls[j], "BulkIndex")) = 2
    /\ \E c \in OwnCallsOf(rolls[j], "BulkIndex") : calls[c].id[2] = 1

\* The BulkIndex calls of the last handler that succeeded and returned
\* shouldRoll, as positions in the call log.
RollSignals ==
  {i \in 1..Len(calls) : calls[i].op = "BulkIndex" /\ calls[i].ok /\ calls[i].roll}

\* The rollovers that started right after call i, one level deeper.
RolloversAfter(i) ==
  {j \in 1..Len(rolls) : rolls[j].from = i /\ rolls[j].depth = calls[i].depth + 1}

\* C18: whenever BulkIndex of a create or update succeeds and signals
\* shouldRoll, the rollover, RollIndex included, is run inside that same call
\* before it returns, and the call returns true only if the rollover returned
\* no error.
C18_RolloverInsideWrite ==
  /\ \A i \in RollSignals :
       /\ Cardinality(RolloversAfter(i)) = 1
       /\ \A j \in RolloversAfter(i) :
            /\ OwnCallsOf(rolls[j], "RollIndex") # {}
            /\ (calls[i].depth = 0 /\ last.ret) => ~rolls[j].err
  /\ \A j \in 1..Len(rolls) : rolls[j].from \in RollSignals

\* A write whose BulkIndex signalled shouldRoll, whose rollover failed and
\* which returned false.
C18_Witness ==
  \E i \in RollSignals : \E j \in RolloversAfter(i) :
    /\ calls[i].depth = 0
    /\ rolls[j].err
    /\ ~last.ret
    /\ last.op \in WriteOps

\* The IDs of the documents a rollover finds live when it starts.
FetchedIDs(roll) == {roll.before.es[k].ID : k \in LiveKeys(roll.before)}

\* Every step of the rollover succeeded: it returned no error, each store call
\* made during it succeeded and each fetched element had a tracker entry to
\* archive it by.
EveryStepDone(roll) ==
  /\ Completed(roll)
  /\ FetchedIDs(roll) \subseteq DOMAIN roll.before.prev

ArchivalInputs ==
  {[graph[id] EXCEPT !.revision = r] : id \in IDs, r \in 0..MaxRev}

\* C20: updateTimes for an ID with no tracker entry returns false, sends no
\* partial update and adds no tracker entry; for an ID with an entry it sends
\* one partial update, to the document named by the tracker's revision and not
\* by the element's own.
C20_ArchivesTrackedRevision ==
  \A e \in ArchivalInputs : \A r \in updateTimes(Backend, e) :
    /\ r.st.prev = prevRevision
    /\ IF e.ID \notin DOMAIN prevRevision
       THEN ~r.ret /\ r.st.calls = <<>> /\ r.st.es = es
       ELSE /\ Len(r.st.calls) = 1
            /\ r.st.calls[1].op = "BulkUpdateWithPartialDoc"
            /\ r.st.calls[1].kind = KindOf(e.ID)
            /\ r.st.calls[1].id = DocID(e.ID, prevRevision[e.ID])
            /\ r.ret = r.st.calls[1].ok

\* The tracker holds revision 0 of n1 while the caller's n1 is at revision 1,
\* and e1, deleted, has no entry.
C20_Witness ==
  /\ "n1" \in DOMAIN prevRevision
  /\ prevRevision["n1"] = 0
  /\ graph["n1"].revision = 1
  /\ "e1" \notin DOMAIN prevRevision
  /\ life["e1"] = "deleted"

\* The last handler was a deletion whose partial update the store failed.
DeleteFailed ==
  /\ last.op \in DeleteOps
  /\ Len(calls) = 1
  /\ calls[1].op = "BulkUpdateWithPartialDoc"
  /\ ~calls[1].ok

\* The document a deletion is applied to: the element's revision in the
\* live index.
DeleteTarget == <<alias, KindOf(last.elem.ID), DocID(last.elem.ID, last.elem.revision)>>

\* C21: when the partial update of NodeDeleted or EdgeDeleted fails, the call
\* returns false, the tracker has no entry for the ID, and the document the
\* deletion was aimed at carries neither DeletedAt nor ArchivedAt.
C21_FailedDeleteLeavesDocLive ==
  DeleteFailed =>
    /\ ~last.ret
    /\ last.elem.ID \notin DOMAIN prevRevision
    /\ DeleteTarget \in DOMAIN es =>
         /\ "DeletedAt" \notin DOMAIN es[DeleteTarget]
         /\ "ArchivedAt" \notin DOMAIN es[DeleteTarget]

C21_AmendedStep ==
  DeleteFailed' =>
    /\ ~last'.ret
    /\ last'.elem.ID \notin DOMAIN prevRevision'
    /\ es' = es
    /\ DeleteTarget' \in DOMAIN es' => "DeletedAt" \notin DOMAIN es'[DeleteTarget']

\* C21 as amended: when the partial update of a deletion fails, the call
\* returns false, the tracker has no entry for the ID, and every document is
\* left as it was before the call: the one the deletion was aimed at has no
\* DeletedAt, and has ArchivedAt only if it had it already.
C21_FailedDeleteChangesNoDoc == [][C21_AmendedStep]_vars

\* A failed deletion of a node that had a tracker entry and whose document an
\* earlier failed rollover had archived.
C21_Witness ==
  /\ DeleteFailed
  /\ last.op = "NodeDeleted"
  /\ ~last.retry
  /\ DeleteTarget \in DOMAIN es
  /\ Archived(es, DeleteTarget)

\* A successful BulkIndex of a document of id in a call log that is a create
\* of the handler itself or a re-creation inside a rollover.
Recreated(log, op, id) ==
  \E i \in 1..Len(log) :
    /\ log[i].op = "BulkIndex"
    /\ log[i].ok
    /\ log[i].id[1] = id
    /\ log[i].depth > 0 \/ op \in {"NodeAdded", "EdgeAdded"}

C22_Step ==
  \A id \in IDs :
    /\ (last'.op \in DeleteOps /\ last'.elem.ID = id) => id \notin DOMAIN prevRevision'
    /\ (id \notin DOMAIN prevRevision /\ id \in DOMAIN prevRevision') =>
         Recreated(calls', last'.op, id)
    /\ (last'.op = "MetadataUpdated" /\ last'.elem.ID = id /\ id \notin DOMAIN prevRevision) =>
         /\ ~last'.ret
         /\ calls' = <<>>
         /\ es' = es
         /\ prevRevision' = prevRevision

\* C22: a deletion, whatever it returns, leaves the ID without a tracker
\* entry; the entry comes back only with a successful BulkIndex of the ID by
\* a create or by a rollover re-creation; and as long as it is missing every
\* MetadataUpdated for the ID returns false and makes no store call.
C22_DeletedRejectsUpdates == [][C22_Step]_vars

\* A MetadataUpdated for a node whose deletion failed, so that its document
\* is still live: it returned false without a store call.
C22_Witness ==
  /\ last.op = "MetadataUpdated"
  /\ last.elem.ID = "n1"
  /\ life["n1"] = "deleted"
  /\ pending["n1"] = "delete"
  /\ ~last.ret
  /\ calls = <<>>
  /\ LiveDocs("n1") # {}

\* Matchers that produce a filter: none, and one that matches everything.
GoodMatchers == {<<>>, <<[err |-> FALSE, filter |-> MatchAll]>>}

\* What the five queries can return with for a context and a matcher: the
\* backend state with the call log, and the elements.
QueryRuns(t, m) ==
  UNION {{[st |-> r.st, elems |-> r.nodes] : r \in GetNode(Backend, id, t)} : id \in NodeIDs}
  \cup UNION {{[st |-> r.st, elems |-> r.edges] : r \in GetEdge(Backend, id, t)} : id \in EdgeIDs}
  \cup {[st |-> r.st, elems |-> r.nodes] : r \in GetNodes(Backend, t, m)}
  \cup {[st |-> r.st, elems |-> r.edges] : r \in GetEdges(Backend, t, m)}
  \cup UNION {{[st |-> r.st, elems |-> r.edges] : r \in GetNodeEdges(Backend, graph[id], t, m)} :
              id \in NodeIDs}

\* The elements the documents of the live write target decode to.
LiveIndexElements ==
  {IF k[2] = "edge" THEN hitToEdge(es[k]).edge ELSE hitToNode(es[k]).node :
     k \in {c \in DOMAIN es : c[1] = alias}}

\* C23: a query whose context has no time slice makes one Search, given the
\* index alias, and returns documents of the live write target only; a query
\* whose context has a time slice makes one Search given no index.
C23_IndexSelection ==
  \A t \in AllContexts : \A m \in GoodMatchers : \A q \in QueryRuns(t, m) :
    /\ Len(q.st.calls) = 1
    /\ q.st.calls[1].op = "Search"
    /\ IF t.TimeSlice = <<>>
       THEN /\ q.st.calls[1].index = GetIndexAlias
            /\ \A i \in 1..Len(q.elems) : q.elems[i] \in LiveIndexElements
       ELSE q.st.calls[1].index = ""

\* After a rollover, a time-slice query returns an edge that only the old
\* index holds while the query without time slice returns none.
C23_Witness ==
  /\ alias = 2
  /\ \E t \in AllContexts :
       /\ t.TimeSlice # <<>>
       /\ \E r \in GetEdges(Backend, t, <<>>) :
            \E i \in 1..Len(r.edges) : r.edges[i] \notin LiveIndexElements
  /\ \A r \in GetEdges(Backend, [TimeSlice |-> <<>>, TimePoint |-> FALSE], <<>>) :
       r.edges = <<>>

\* A matcher whose Filter() returns an error.
FailingMatcher == <<[err |-> TRUE]>>

\* C24: with a matcher that fails to produce a filter, GetNodes, GetEdges and
\* GetNodeEdges return an empty list and make no store call.
C24_MatcherErrorShortCircuits ==
  \A t \in AllContexts :
    /\ \A r \in GetNodes(Backend, t, FailingMatcher) :
         r.nodes = <<>> /\ r.st.calls = <<>>
    /\ \A r \in GetEdges(Backend, t, FailingMatcher) :
         r.edges = <<>> /\ r.st.calls = <<>>
    /\ \A id \in NodeIDs : \A r \in GetNodeEdges(Backend, graph[id], t, FailingMatcher) :
         r.edges = <<>> /\ r.st.calls = <<>>
    /\ GetNodes(Backend, t, FailingMatcher) # {}
    /\ GetEdges(Backend, t, FailingMatcher) # {}

\* A state in which the three queries return elements when given no matcher.
C24_Witness ==
  LET t == [TimeSlice |-> <<>>, TimePoint |-> FALSE]
  IN /\ \E r \in GetNodes(Backend, t, <<>>) : r.nodes # <<>>
     /\ \E r \in GetEdges(Backend, t, <<>>) : r.edges # <<>>
     /\ \E r \in GetNodeEdges(Backend, graph["n1"], t, <<>>) : r.edges # <<>>
     /\ \A r \in GetNodes(Backend, t, FailingMatcher) : r.nodes = <<>>

\* The RollIndex calls of the last handler, as positions in the call log.
RollIndexCalls == {i \in 1..Len(calls) : calls[i].op = "RollIndex"}

\* C25: one create or update makes at most one RollIndex call, and no
\* rollover is started by a BulkIndex that re-creates an element inside a
\* rollover, whatever shouldRoll the store returns for it.
C25_NoNestedRollover ==
  /\ Cardinality(RollIndexCalls) <= 1
  /\ \A j \in 1..Len(rolls) : rolls[j].depth = 1
  /\ \A i \in RollSignals : calls[i].depth = 0

\* The last handler was a MetadataUpdated whose archival succeeded and whose
\* BulkIndex of the new revision the store failed.
WriteFailed ==
  /\ last.op = "MetadataUpdated"
  /\ Len(calls) = 2
  /\ calls[1].op = "BulkUpdateWithPartialDoc"
  /\ calls[1].ok
  /\ calls[2].op = "BulkIndex"
  /\ ~calls[2].ok

\* The documents of id that a store holds without ArchivedAt.
LiveDocsIn(store, id) == {k \in DOMAIN store : store[k].ID = id /\ ~Archived(store, k)}

\* This step delivers the same MetadataUpdated again, right after it failed
\* at the write, and every store call it makes succeeds.
RetryAfterWriteFailed ==
  /\ WriteFailed
  /\ last'.op = "MetadataUpdated"
  /\ last'.elem = last.elem
  /\ CallClean'

C26_Step ==
  LET id == last'.elem.ID
      new == last'.elem.revision
  IN /\ WriteFailed' =>
          /\ ~last'.ret
          /\ id \in DOMAIN prevRevision'
          /\ prevRevision'[id] = prevRevision[id]
     /\ RetryAfterWriteFailed =>
          /\ last'.ret
          /\ Cardinality(LiveDocsIn(es', id)) = 1
          /\ \A k \in LiveDocsIn(es', id) : es'[k].Revision = new
          /\ prevRevision'[id] = new

\* C26: a MetadataUpdated that fails at the BulkIndex of the new revision
\* leaves the tracker at the previous revision, and the same MetadataUpdated
\* delivered again with every store call succeeding returns true, leaves
\* exactly one document of the ID without ArchivedAt, of the new revision,
\* and sets the tracker entry to the new revision.
C26_RetryHealsFailedWrite == [][C26_Step]_vars

====
